---- MODULE Spec2Model ----
(***************************************************************************)
(* A model of trunk's serve system (src/serve.rs):                         *)
(*   - the live-reload connection handler handle_ws over the build-done    *)
(*     broadcast channel                       (specification SpecReload), *)
(*   - the router composition and request dispatch                          *)
(*                                              (specification SpecRouter), *)
(*   - the lifecycle ServeSystem::new / run / spawn_server and the shutdown *)
(*     broadcast channel            (specifications SpecServe, FairServe), *)
(*   - the mount point of the static file service                          *)
(*                                               (specification SpecMount), *)
(*   - the listening addresses spawn_server displays                       *)
(*                                              (specification SpecListen). *)
(* The parts share one set of variables; each specification keeps the      *)
(* variables of the other parts at their idle value.                       *)
(***************************************************************************)
EXTENDS Integers, Sequences, FiniteSets, TLC

(***************************************************************************)
(* Bounds of the model.                                                    *)
(***************************************************************************)
\* Number of build-done events the watch loop emits in one behaviour.
MaxEvents == 10
\* Number of reload connections.
MaxConns == 1
\* Longest list-form proxy configuration.
MaxProxies == 2
\* Number of explicit shutdown signals the caller sends in one behaviour.
MaxSignals == 2
\* Longest public URL, in tokens.
MaxUrlLen == 5
\* Largest number of interface addresses the enumeration returns.
MaxIfs == 2

\* Capacity of the build-done broadcast channel: broadcast::channel(8).
BUILD_DONE_CAP == 8

Conns == 1..MaxConns

VARIABLES
    \* ---- live-reload part ----
    tail,         \* number of events sent on build_done_chan so far
    watchTx,      \* TRUE while the watch system holds its clone of the sender
    routerAlive,  \* TRUE while the server's router holds the Arc<State>
    wsState,      \* per connection: "none", "select", "sending", "closed"
    subAt,        \* per connection: value of tail when rx was subscribed
    rxNext,       \* per connection: number of the last position rx has passed
    cur,          \* per connection: event being sent by ws.send (0: none)
    clientInput,  \* per connection: the client has sent a message or disconnected
    closeCause,   \* per connection: why the handler left its loop
    sent,         \* per connection: events for which a reload message was sent
    \* ---- router part ----
    rcfg,         \* the RtcServe fields router() reads
    dist,         \* the dist directory: [files: the paths that exist in it
                  \* besides index.html, index: index.html exists]
    built,        \* << >> before router() ran, <<the router>> after
    req,          \* << >>, or <<the last request [method, path]>>
    resp,         \* << >>, or <<the response to it [handler, status, body]>>
    \* ---- lifecycle part ----
    pc,           \* where the caller is in ServeSystem::new and ::run
    tls,          \* cfg.tls.is_some()
    watchTask,    \* "none", "idle", "running", "done", "failed"
    server,       \* "none", "created", "serving", "stopped", "failed"
    shutdownFut,  \* "none", "created", "waiting", "done", "dropped"
    shSenders,    \* holders of a sender of the shutdown channel
    shSent,       \* number of signals sent on the shutdown channel
    srvRx,        \* signals sent before shutdown_rx was subscribed
    watchRx,      \* signals sent before the watch system subscribed
    graceful,     \* number of graceful shutdowns initiated on the server
    buildRes,     \* result of the initial build: "none", "ok", "err"
    srvKind,      \* the servers spawn_server has built: "http", "https"
    futAt,        \* where shutdown_fut went: "none", "task", "hook"
    \* ---- mount point ----
    purl,         \* state.public_url
    public_route, \* the mount point router computed (None before)
    \* ---- listening addresses ----
    addr,         \* the address the server binds to
    netifas,      \* result of local_ip_address::list_afinet_netifas()
    addresses     \* the addresses displayed (None before)

reloadVars == <<tail, watchTx, routerAlive, wsState, subAt, rxNext, cur,
                clientInput, closeCause, sent>>

routerVars == <<rcfg, dist, built, req, resp>>

serveVars == <<pc, tls, watchTask, server, shutdownFut, shSenders, shSent,
               srvRx, watchRx, graceful, buildRes, srvKind, futAt>>

mountVars == <<purl, public_route>>

listenVars == <<addr, netifas, addresses>>

vars == <<reloadVars, routerVars, serveVars, mountVars, listenVars>>

nonReloadVars == <<routerVars, serveVars, mountVars, listenVars>>
nonRouterVars == <<reloadVars, serveVars, mountVars, listenVars>>
nonServeVars == <<reloadVars, routerVars, mountVars, listenVars>>
nonMountVars == <<reloadVars, routerVars, serveVars, listenVars>>
nonListenVars == <<reloadVars, routerVars, serveVars, mountVars>>

\* Idle value of the live-reload part.
ReloadIdle ==
    /\ tail = 0
    /\ watchTx = FALSE
    /\ routerAlive = FALSE
    /\ wsState = [c \in Conns |-> "none"]
    /\ subAt = [c \in Conns |-> 0]
    /\ rxNext = [c \in Conns |-> 0]
    /\ cur = [c \in Conns |-> 0]
    /\ clientInput = [c \in Conns |-> FALSE]
    /\ closeCause = [c \in Conns |-> "none"]
    /\ sent = [c \in Conns |-> << >>]

\* Idle value of the router part.
RouterIdle ==
    /\ rcfg = << >>
    /\ dist = << >>
    /\ built = << >>
    /\ req = << >>
    /\ resp = << >>


\* Idle value of the lifecycle part.
ServeIdle ==
    /\ pc = "idle"
    /\ tls = FALSE
    /\ watchTask = "none"
    /\ server = "none"
    /\ shutdownFut = "none"
    /\ shSenders = {}
    /\ shSent = 0
    /\ srvRx = 0
    /\ watchRx = 0
    /\ graceful = 0
    /\ buildRes = "none"
    /\ srvKind = {}
    /\ futAt = "none"

\* Idle value of the mount point part.
MountIdle ==
    /\ purl = << >>
    /\ public_route = << >>

\* Idle value of the listening addresses part.
ListenIdle ==
    /\ addr = << >>
    /\ netifas = << >>
    /\ addresses = << >>

(***************************************************************************)
(* Strings and paths: a string is a sequence of tokens, a token being the  *)
(* character "/" or a path segment.                                        *)
(***************************************************************************)
SLASH == "/"
INDEX_HTML == "index.html"
ROOT == <<SLASH>>
WS_PATH == <<SLASH, "_trunk", SLASH, "ws">>

None == << >>
Some(x) == <<x>>
IsSome(o) == o # << >>
Unwrap(o) == o[1]

\* str::strip_suffix('/')
StripSuffixSlash(s) ==
    IF Len(s) > 0 /\ s[Len(s)] = SLASH THEN Some(SubSeq(s, 1, Len(s) - 1)) ELSE None

\* `path` is `prefix` or lies below it (the match of a nested service or of
\* a proxy mount).
IsPrefix(p, s) == Len(p) <= Len(s) /\ SubSeq(s, 1, Len(p)) = p

Under(prefix, path) ==
    \/ prefix = ROOT
    \/ path = prefix
    \/ IsPrefix(prefix \o <<SLASH>>, path)

\* The rest of `path` below `prefix`, without the leading "/".
Below(prefix, path) ==
    IF prefix = ROOT THEN SubSeq(path, 2, Len(path))
    ELSE IF path = prefix THEN << >>
    ELSE SubSeq(path, Len(prefix) + 2, Len(path))

(***************************************************************************)
(* Proxy handlers (crate::proxy).                                          *)
(***************************************************************************)
\* ProxyHandlerWebSocket::new(backend, rewrite)
ProxyHandlerWebSocket(backend) ==
    [kind |-> "proxy_ws", path |-> backend.path, backend |-> backend.name,
     client |-> "none"]

\* ProxyHandlerHttp::new(client, backend, rewrite)
ProxyHandlerHttp(client, backend) ==
    [kind |-> "proxy_http", path |-> backend.path, backend |-> backend.name,
     client |-> client]

\* handler.register(router): the handler adds its route at its mount path.
Register(handler, rt) == [rt EXCEPT !.routes = Append(@, handler)]

(***************************************************************************)
(* router(state, cfg)                                                      *)
(***************************************************************************)
\* The mount point of the static file service.
PublicRoute(public_url) ==
    IF public_url = ROOT THEN public_url
    ELSE LET stripped == StripSuffixSlash(public_url) IN
         IF IsSome(stripped) THEN Unwrap(stripped) ELSE public_url

\* Router::new().fallback_service(..nest_service(public_route, ServeDir..))
\*              .route("/_trunk/ws", get(..handle_ws..))
BaseRouter(public_url) ==
    [fallback |-> Some(PublicRoute(public_url)),
     routes |-> <<[kind |-> "reload", path |-> WS_PATH, backend |-> "",
                   client |-> "none"]>>]

\* Router::new()
EmptyRouter == [fallback |-> None, routes |-> << >>]

\* `router = handler.clone().register(router)`
\* (RegisterOn_Fresh: the handler is registered on a new router instead.)
RegisterOn_Fresh(handler, rt) == Register(handler, EmptyRouter)

RegisterOn(handler, rt) == Register(handler, rt)

\* The two clients of State: `insecure_client` is the one built with
\* danger_accept_invalid_certs(true).
AcceptsInvalidCerts(client) == client = "insecure_client"

\* The client an HTTP proxy handler is given.
\* (ProxyClient_AlwaysInsecure: every HTTP proxy gets the insecure client.)
ProxyClient_AlwaysInsecure(insecure) == "insecure_client"

ProxyClient(insecure) == IF insecure THEN "insecure_client" ELSE "client"

\* One proxy configuration entry: the websocket or the HTTP handler.
ProxyEntry(backend, ws, insecure, rt) ==
    IF ws
    THEN RegisterOn(ProxyHandlerWebSocket(backend), rt)
    ELSE RegisterOn(ProxyHandlerHttp(ProxyClient(insecure), backend), rt)

\* for proxy in proxies.iter() { .. }
RECURSIVE ProxyList(_, _)
ProxyList(proxies, rt) ==
    IF proxies = << >> THEN rt
    ELSE ProxyList(Tail(proxies),
                   ProxyEntry(Head(proxies).backend, Head(proxies).ws,
                              Head(proxies).insecure, rt))

\* "Build proxies": the single-entry form, else the list form.
\* (BuildProxies_Both: the list form is honoured next to the single entry.)
BuildProxies_Both(cfg, rt) ==
    LET one == IF IsSome(cfg.proxy_backend)
               THEN ProxyEntry(Unwrap(cfg.proxy_backend), cfg.proxy_ws,
                               cfg.proxy_insecure, rt)
               ELSE rt
    IN IF IsSome(cfg.proxies) THEN ProxyList(Unwrap(cfg.proxies), one) ELSE one

\* (BuildProxies_Reversed: the list is walked from its end.)
BuildProxies_Reversed(cfg, rt) ==
    IF IsSome(cfg.proxy_backend)
    THEN ProxyEntry(Unwrap(cfg.proxy_backend), cfg.proxy_ws, cfg.proxy_insecure, rt)
    ELSE IF IsSome(cfg.proxies)
    THEN LET l == Unwrap(cfg.proxies) IN
         ProxyList([i \in 1..Len(l) |-> l[Len(l) + 1 - i]], rt)
    ELSE rt

BuildProxies(cfg, rt) ==
    IF IsSome(cfg.proxy_backend)
    THEN ProxyEntry(Unwrap(cfg.proxy_backend), cfg.proxy_ws, cfg.proxy_insecure, rt)
    ELSE IF IsSome(cfg.proxies)
    THEN ProxyList(Unwrap(cfg.proxies), rt)
    ELSE rt

router(cfg) == BuildProxies(cfg, BaseRouter(cfg.public_url))

(***************************************************************************)
(* Request dispatch by the router built above.                             *)
(***************************************************************************)
IsProxy(r) == r.kind \in {"proxy_ws", "proxy_http"}

\* Indices of the proxy routes whose mount claims `path`.
Claiming(rt, path) ==
    {i \in 1..Len(rt.routes) : IsProxy(rt.routes[i]) /\ Under(rt.routes[i].path, path)}

\* The route a path is dispatched to: an exact route first, then the most
\* specific mount that claims it, then the fallback service.
Dispatch(rt, path) ==
    LET exact == {i \in 1..Len(rt.routes) :
                     rt.routes[i].kind = "reload" /\ rt.routes[i].path = path}
        claim == Claiming(rt, path)
        best  == {i \in claim : \A j \in claim :
                     \/ Len(rt.routes[j].path) < Len(rt.routes[i].path)
                     \/ Len(rt.routes[j].path) = Len(rt.routes[i].path) /\ i <= j}
    IN IF exact # {} THEN [kind |-> "reload", route |-> CHOOSE i \in exact : TRUE]
       ELSE IF claim # {} THEN [kind |-> "proxy", route |-> CHOOSE i \in best : TRUE]
       ELSE IF IsSome(rt.fallback) THEN [kind |-> "static", route |-> 0]
       ELSE [kind |-> "none", route |-> 0]

\* ServeDir::new(dist_dir).fallback(ServeFile::new(dist_dir.join(INDEX_HTML)))
\* behind get_service, nested at the mount point.
FileExists(d, rel) ==
    \/ rel \in d.files
    \/ rel = <<INDEX_HTML>> /\ d.index

\* (ServeStatic_NoFallback: ServeDir without the index.html fallback.)
ServeStatic_NoFallback(mount, d, method, path) ==
    IF ~Under(mount, path)
    THEN [handler |-> "static", status |-> 404, body |-> << >>]
    ELSE IF method \notin {"GET", "HEAD"}
    THEN [handler |-> "static", status |-> 405, body |-> << >>]
    ELSE IF Below(mount, path) # << >> /\ FileExists(d, Below(mount, path))
    THEN [handler |-> "static", status |-> 200, body |-> Below(mount, path)]
    ELSE [handler |-> "static", status |-> 404, body |-> << >>]

ServeStatic(mount, d, method, path) ==
    IF ~Under(mount, path)
    THEN [handler |-> "static", status |-> 404, body |-> << >>]
    ELSE IF method \notin {"GET", "HEAD"}
    THEN [handler |-> "static", status |-> 405, body |-> << >>]
    ELSE IF Below(mount, path) # << >> /\ FileExists(d, Below(mount, path))
    THEN [handler |-> "static", status |-> 200, body |-> Below(mount, path)]
    ELSE IF d.index
    THEN [handler |-> "static", status |-> 200, body |-> <<INDEX_HTML>>]
    ELSE [handler |-> "static", status |-> 404, body |-> << >>]

\* The response of the server to one request.
Respond(rt, d, method, path) ==
    LET to == Dispatch(rt, path) IN
    CASE to.kind = "reload" ->
            IF method = "GET"
            THEN [handler |-> "reload", status |-> 101, body |-> << >>]
            ELSE [handler |-> "reload", status |-> 405, body |-> << >>]
      [] to.kind = "proxy" ->
            [handler |-> rt.routes[to.route].backend, status |-> 0, body |-> << >>]
      [] to.kind = "static" -> ServeStatic(Unwrap(rt.fallback), d, method, path)
      [] OTHER -> [handler |-> "none", status |-> 404, body |-> << >>]

(***************************************************************************)
(* The router part as a state machine.                                     *)
(***************************************************************************)
PublicUrls == {ROOT, <<SLASH, "app", SLASH>>, <<SLASH, "app">>}

Backends ==
    {[name |-> "api", path |-> <<SLASH, "api">>],
     [name |-> "all", path |-> ROOT],
     [name |-> "trunk", path |-> <<SLASH, "_trunk">>]}

ProxyEntries == [backend : Backends, ws : BOOLEAN, insecure : BOOLEAN]

ProxyLists == UNION {[1..n -> ProxyEntries] : n \in 0..MaxProxies}

Methods == {"GET", "POST"}

ReqPaths ==
    {ROOT, <<SLASH, "x">>, <<SLASH, "y">>, <<SLASH, "app">>,
     <<SLASH, "app", SLASH, "x">>, <<SLASH, "api", SLASH, "x">>,
     <<SLASH, "_trunk">>, WS_PATH}

DistFiles == {<<"x">>}

RouterInit ==
    /\ ReloadIdle
    /\ ServeIdle
    /\ MountIdle
    /\ ListenIdle
    /\ rcfg \in {c \in [public_url : PublicUrls,
                        proxy_backend : {None} \cup {Some(b) : b \in Backends},
                        proxy_ws : BOOLEAN, proxy_insecure : BOOLEAN,
                        proxies : {None} \cup {Some(l) : l \in ProxyLists}] :
                    c.proxy_backend = None => ~c.proxy_ws /\ ~c.proxy_insecure}
    /\ dist \in [files : SUBSET DistFiles, index : BOOLEAN]
    /\ built = None
    /\ req = None
    /\ resp = None

\* spawn_server: let router = router(state, cfg.clone());
BuildRouter ==
    /\ built = None
    /\ built' = Some(router(rcfg))
    /\ UNCHANGED <<rcfg, dist, req, resp>>
    /\ UNCHANGED nonRouterVars

\* The server answers a request. The router does not change once built, so
\* one request per behaviour reaches every response it can give.
Request(method, path) ==
    /\ IsSome(built)
    /\ req = None
    /\ req' = Some([method |-> method, path |-> path])
    /\ resp' = Some(Respond(Unwrap(built), dist, method, path))
    /\ UNCHANGED <<rcfg, dist, built>>
    /\ UNCHANGED nonRouterVars

RouterNext ==
    \/ BuildRouter
    \/ \E m \in Methods, p \in ReqPaths : Request(m, p)

SpecRouter == RouterInit /\ [][RouterNext]_vars

(***************************************************************************)
(* The build-done broadcast channel.                                       *)
(***************************************************************************)
\* The handler of an open connection owns an Arc<State>, and State owns a
\* sender of build_done_chan.
\* (HandlerHoldsState_Never: the handler keeps no sender alive.)
HandlerHoldsState_Never(c) == FALSE

HandlerHoldsState(c) == wsState[c] \in {"select", "sending"}

\* Number of live senders of build_done_chan.
BuildDoneSenders ==
    (IF watchTx THEN 1 ELSE 0)
    + (IF routerAlive \/ \E c \in Conns : HandlerHoldsState(c) THEN 1 ELSE 0)

\* Outcome of rx.recv() for a receiver that has passed `next` events when
\* `sentSoFar` events were sent and `senders` senders are alive.
BroadcastRecv(next, sentSoFar, senders) ==
    IF next < sentSoFar - BUILD_DONE_CAP THEN "Lagged"
    ELSE IF next < sentSoFar THEN "Ok"
    ELSE IF senders = 0 THEN "Closed"
    ELSE "Pending"

(***************************************************************************)
(* handle_ws                                                               *)
(***************************************************************************)
\* The websocket upgrade completed: handle_ws subscribes to the channel.
WsOpen(c) ==
    /\ routerAlive
    /\ wsState[c] = "none"
    /\ wsState' = [wsState EXCEPT ![c] = "select"]
    /\ subAt' = [subAt EXCEPT ![c] = tail]
    /\ rxNext' = [rxNext EXCEPT ![c] = tail]
    /\ UNCHANGED nonReloadVars
    /\ UNCHANGED <<tail, watchTx, routerAlive, cur, clientInput, closeCause, sent>>

\* The watch system sends a build-done event.
Emit ==
    /\ watchTx
    /\ tail < MaxEvents
    /\ tail' = tail + 1
    /\ UNCHANGED nonReloadVars
    /\ UNCHANGED <<watchTx, routerAlive, wsState, subAt, rxNext, cur,
                   clientInput, closeCause, sent>>

\* The watch system ends and drops its sender.
WatchDropTx ==
    /\ watchTx
    /\ watchTx' = FALSE
    /\ UNCHANGED nonReloadVars
    /\ UNCHANGED <<tail, routerAlive, wsState, subAt, rxNext, cur,
                   clientInput, closeCause, sent>>

\* The server stops and drops the router.
RouterDrop ==
    /\ routerAlive
    /\ routerAlive' = FALSE
    /\ UNCHANGED nonReloadVars
    /\ UNCHANGED <<tail, watchTx, wsState, subAt, rxNext, cur,
                   clientInput, closeCause, sent>>

\* The client sends a message or disconnects.
ClientInput(c) ==
    /\ wsState[c] \in {"select", "sending"}
    /\ ~clientInput[c]
    /\ clientInput' = [clientInput EXCEPT ![c] = TRUE]
    /\ UNCHANGED nonReloadVars
    /\ UNCHANGED <<tail, watchTx, routerAlive, wsState, subAt, rxNext, cur,
                   closeCause, sent>>

\* select!: the ws.recv() branch completes; the handler returns.
\* (SelectWs_KeepsGoing: the branch does not return and the loop goes on.)
SelectWs_KeepsGoing(c) ==
    /\ wsState[c] = "select"
    /\ clientInput[c]
    /\ closeCause[c] = "none"
    /\ closeCause' = [closeCause EXCEPT ![c] = "client"]
    /\ UNCHANGED nonReloadVars
    /\ UNCHANGED <<tail, watchTx, routerAlive, wsState, subAt, rxNext, cur,
                   clientInput, sent>>

SelectWs(c) ==
    /\ wsState[c] = "select"
    /\ clientInput[c]
    /\ wsState' = [wsState EXCEPT ![c] = "closed"]
    /\ closeCause' = [closeCause EXCEPT ![c] = "client"]
    /\ UNCHANGED nonReloadVars
    /\ UNCHANGED <<tail, watchTx, routerAlive, subAt, rxNext, cur, clientInput, sent>>

\* select!: the rx.recv() branch completes; the loop goes on iff is_ok().
SelectRx(c) ==
    /\ wsState[c] = "select"
    /\ LET res == BroadcastRecv(rxNext[c], tail, BuildDoneSenders) IN
        /\ res # "Pending"
        /\ IF res = "Ok"
           THEN /\ wsState' = [wsState EXCEPT ![c] = "sending"]
                /\ rxNext' = [rxNext EXCEPT ![c] = @ + 1]
                /\ cur' = [cur EXCEPT ![c] = rxNext[c] + 1]
                /\ UNCHANGED closeCause
           ELSE /\ wsState' = [wsState EXCEPT ![c] = "closed"]
                /\ closeCause' = [closeCause EXCEPT ![c] =
                                    IF res = "Lagged" THEN "lagged" ELSE "disposed"]
                /\ rxNext' = [rxNext EXCEPT ![c] =
                                IF res = "Lagged" THEN tail - BUILD_DONE_CAP ELSE @]
                /\ UNCHANGED cur
    /\ UNCHANGED nonReloadVars
    /\ UNCHANGED <<tail, watchTx, routerAlive, subAt, clientInput, sent>>

\* ws.send(Text("{\"reload\": true}")) succeeded.
SendOk(c) ==
    /\ wsState[c] = "sending"
    /\ sent' = [sent EXCEPT ![c] = Append(@, cur[c])]
    /\ cur' = [cur EXCEPT ![c] = 0]
    /\ wsState' = [wsState EXCEPT ![c] = "select"]
    /\ UNCHANGED nonReloadVars
    /\ UNCHANGED <<tail, watchTx, routerAlive, subAt, rxNext, clientInput, closeCause>>

\* ws.send(..) failed: break.
\* (SendErr_Continues: the failure is ignored and the loop goes on.)
SendErr_Continues(c) ==
    /\ wsState[c] = "sending"
    /\ cur' = [cur EXCEPT ![c] = 0]
    /\ wsState' = [wsState EXCEPT ![c] = "select"]
    /\ UNCHANGED nonReloadVars
    /\ UNCHANGED <<tail, watchTx, routerAlive, subAt, rxNext, clientInput,
                   closeCause, sent>>

SendErr(c) ==
    /\ wsState[c] = "sending"
    /\ cur' = [cur EXCEPT ![c] = 0]
    /\ wsState' = [wsState EXCEPT ![c] = "closed"]
    /\ closeCause' = [closeCause EXCEPT ![c] = "send"]
    /\ UNCHANGED nonReloadVars
    /\ UNCHANGED <<tail, watchTx, routerAlive, subAt, rxNext, clientInput, sent>>

\* The server is up: the watch system and the router hold their senders and
\* no connection is open yet.
ReloadInit ==
    /\ RouterIdle
    /\ ServeIdle
    /\ MountIdle
    /\ ListenIdle
    /\ tail = 0
    /\ watchTx = TRUE
    /\ routerAlive = TRUE
    /\ wsState = [c \in Conns |-> "none"]
    /\ subAt = [c \in Conns |-> 0]
    /\ rxNext = [c \in Conns |-> 0]
    /\ cur = [c \in Conns |-> 0]
    /\ clientInput = [c \in Conns |-> FALSE]
    /\ closeCause = [c \in Conns |-> "none"]
    /\ sent = [c \in Conns |-> << >>]

ReloadNext ==
    \/ Emit
    \/ WatchDropTx
    \/ RouterDrop
    \/ \E c \in Conns : WsOpen(c)
    \/ \E c \in Conns : ClientInput(c)
    \/ \E c \in Conns : SelectWs(c)
    \/ \E c \in Conns : SelectRx(c)
    \/ \E c \in Conns : SendOk(c)
    \/ \E c \in Conns : SendErr(c)

SpecReload == ReloadInit /\ [][ReloadNext]_vars


(***************************************************************************)
(* The shutdown broadcast channel.                                         *)
(***************************************************************************)
\* recv() of a receiver subscribed after `seen` signals completes: a signal
\* is in the channel for it, or every sender is gone.
\* (ShutdownRecvReady_SignalsOnly: a closed channel is taken as idle.)
ShutdownRecvReady_SignalsOnly(seen) == seen < shSent

ShutdownRecvReady(seen) == seen < shSent \/ shSenders = {}

\* The caller sends an explicit shutdown signal.
CallerSignal ==
    /\ "caller" \in shSenders
    /\ shSent < MaxSignals
    /\ shSent' = shSent + 1
    /\ UNCHANGED <<pc, tls, watchTask, server, shutdownFut, shSenders, srvRx,
                   watchRx, graceful>>
    /\ UNCHANGED nonServeVars
    /\ UNCHANGED <<buildRes, srvKind, futAt>>

\* The caller drops its sender.
CallerDrop ==
    /\ "caller" \in shSenders
    /\ shSenders' = shSenders \ {"caller"}
    /\ UNCHANGED <<pc, tls, watchTask, server, shutdownFut, shSent, srvRx,
                   watchRx, graceful>>
    /\ UNCHANGED nonServeVars
    /\ UNCHANGED <<buildRes, srvKind, futAt>>

(***************************************************************************)
(* ServeSystem::new                                                        *)
(***************************************************************************)
\* WatchSystem::new(..).await? succeeded: the watch system is subscribed to
\* the shutdown channel, and Self owns the sender.
New ==
    /\ pc = "start"
    /\ pc' = "constructed"
    /\ watchTask' = "idle"
    /\ watchRx' = shSent
    /\ UNCHANGED <<tls, server, shutdownFut, shSenders, shSent, srvRx, graceful>>
    /\ UNCHANGED nonServeVars
    /\ UNCHANGED <<buildRes, srvKind, futAt>>

\* WatchSystem::new(..).await? failed: the error is returned and the sender
\* given to new is dropped.
NewErr ==
    /\ pc = "start"
    /\ pc' = "new_err"
    /\ shSenders' = shSenders \ {"lifecycle"}
    /\ UNCHANGED <<tls, watchTask, server, shutdownFut, shSent, srvRx, watchRx,
                   graceful>>
    /\ UNCHANGED nonServeVars
    /\ UNCHANGED <<buildRes, srvKind, futAt>>

(***************************************************************************)
(* ServeSystem::run and spawn_server                                       *)
(***************************************************************************)
\* run is called: self.watch.build().await begins.
\* (RunBuild_WatchFirst: the watch loop is spawned before the build.)
RunBuild_WatchFirst ==
    /\ pc = "constructed"
    /\ pc' = "build"
    /\ watchTask' = "running"
    /\ UNCHANGED <<tls, server, shutdownFut, shSenders, shSent, srvRx, watchRx,
                   graceful>>
    /\ UNCHANGED nonServeVars
    /\ UNCHANGED <<buildRes, srvKind, futAt>>

RunBuild ==
    /\ pc = "constructed"
    /\ pc' = "build"
    /\ UNCHANGED <<tls, watchTask, server, shutdownFut, shSenders, shSent, srvRx,
                   watchRx, graceful>>
    /\ UNCHANGED nonServeVars
    /\ UNCHANGED <<buildRes, srvKind, futAt>>

\* The initial build ended, well or not (its result is ignored);
\* tokio::spawn(self.watch.run()).
SpawnWatch ==
    /\ pc = "build"
    /\ pc' = "subscribe"
    /\ \E res \in {"ok", "err"} : buildRes' = res
    /\ watchTask' = "running"
    /\ UNCHANGED <<tls, server, shutdownFut, shSenders, shSent, srvRx, watchRx,
                   graceful>>
    /\ UNCHANGED nonServeVars
    /\ UNCHANGED <<srvKind, futAt>>

\* self.shutdown_tx.subscribe() and the start of spawn_server: shutdown_fut
\* is built around the receiver.
Subscribe ==
    /\ pc = "subscribe"
    /\ pc' = "client"
    /\ srvRx' = shSent
    /\ shutdownFut' = "created"
    /\ UNCHANGED <<tls, watchTask, server, shSenders, shSent, watchRx, graceful>>
    /\ UNCHANGED nonServeVars
    /\ UNCHANGED <<buildRes, srvKind, futAt>>

\* reqwest::ClientBuilder::new()..build() succeeded, for the validating
\* client and then for the insecure client.
BuildClient ==
    /\ pc \in {"client", "insecure_client"}
    /\ pc' = IF pc = "client" THEN "insecure_client" ELSE "server"
    /\ UNCHANGED <<tls, watchTask, server, shutdownFut, shSenders, shSent, srvRx,
                   watchRx, graceful>>
    /\ UNCHANGED nonServeVars
    /\ UNCHANGED <<buildRes, srvKind, futAt>>

\* ..build().context(..)? failed: spawn_server and run return the error;
\* self, the receiver and shutdown_fut are dropped.
BuildClientErr ==
    /\ pc \in {"client", "insecure_client"}
    /\ pc' = "ret_err"
    /\ shutdownFut' = "dropped"
    /\ shSenders' = shSenders \ {"lifecycle"}
    /\ UNCHANGED <<tls, watchTask, server, shSent, srvRx, watchRx, graceful>>
    /\ UNCHANGED nonServeVars
    /\ UNCHANGED <<buildRes, srvKind, futAt>>

\* The server is built: with TLS, shutdown_fut is spawned as a task of its
\* own; without, it becomes the server's graceful-shutdown hook.
\* (BuildServer_SpawnsFut: shutdown_fut is spawned as a task in both modes.)
BuildServer_SpawnsFut ==
    /\ pc = "server"
    /\ pc' = "spawn"
    /\ server' = "created"
    /\ shutdownFut' = "waiting"
    /\ srvKind' = srvKind \cup {IF tls THEN "https" ELSE "http"}
    /\ futAt' = "task"
    /\ UNCHANGED <<tls, watchTask, shSenders, shSent, srvRx, watchRx, graceful>>
    /\ UNCHANGED nonServeVars
    /\ UNCHANGED buildRes

BuildServer ==
    /\ pc = "server"
    /\ pc' = "spawn"
    /\ server' = "created"
    /\ shutdownFut' = IF tls THEN "waiting" ELSE shutdownFut
    /\ srvKind' = srvKind \cup {IF tls THEN "https" ELSE "http"}
    /\ futAt' = IF tls THEN "task" ELSE "hook"
    /\ UNCHANGED <<tls, watchTask, shSenders, shSent, srvRx, watchRx, graceful>>
    /\ UNCHANGED nonServeVars
    /\ UNCHANGED buildRes

\* Ok(tokio::spawn(async move { server.await .. })): the server task runs,
\* and polls the hook of the plaintext server.
SpawnServerTask ==
    /\ pc = "spawn"
    /\ pc' = "drop_tx"
    /\ server' = "serving"
    /\ shutdownFut' = IF shutdownFut = "created" THEN "waiting" ELSE shutdownFut
    /\ UNCHANGED <<tls, watchTask, shSenders, shSent, srvRx, watchRx, graceful>>
    /\ UNCHANGED nonServeVars
    /\ UNCHANGED <<buildRes, srvKind, futAt>>

\* The browser is opened if configured; drop(self.shutdown_tx).
DropShutdownTx ==
    /\ pc = "drop_tx"
    /\ pc' = "await_watch"
    /\ shSenders' = shSenders \ {"lifecycle"}
    /\ UNCHANGED <<tls, watchTask, server, shutdownFut, shSent, srvRx, watchRx,
                   graceful>>
    /\ UNCHANGED nonServeVars
    /\ UNCHANGED <<buildRes, srvKind, futAt>>

\* watch_handle.await: a join error is logged.
\* (AwaitWatch_Propagates: a join error is returned with `?`.)
AwaitWatch_Propagates ==
    /\ pc = "await_watch"
    /\ watchTask \in {"done", "failed"}
    /\ pc' = IF watchTask = "failed" THEN "ret_err" ELSE "await_server"
    /\ UNCHANGED <<tls, watchTask, server, shutdownFut, shSenders, shSent, srvRx,
                   watchRx, graceful>>
    /\ UNCHANGED nonServeVars
    /\ UNCHANGED <<buildRes, srvKind, futAt>>

AwaitWatch ==
    /\ pc = "await_watch"
    /\ watchTask \in {"done", "failed"}
    /\ pc' = "await_server"
    /\ UNCHANGED <<tls, watchTask, server, shutdownFut, shSenders, shSent, srvRx,
                   watchRx, graceful>>
    /\ UNCHANGED nonServeVars
    /\ UNCHANGED <<buildRes, srvKind, futAt>>

\* server_handle.await: a join error is logged; Ok(()).
AwaitServer ==
    /\ pc = "await_server"
    /\ server \in {"stopped", "failed"}
    /\ pc' = "ret_ok"
    /\ UNCHANGED <<tls, watchTask, server, shutdownFut, shSenders, shSent, srvRx,
                   watchRx, graceful>>
    /\ UNCHANGED nonServeVars
    /\ UNCHANGED <<buildRes, srvKind, futAt>>

(***************************************************************************)
(* The spawned tasks.                                                      *)
(***************************************************************************)
\* The watch loop observes the shutdown signal, or the disposal of the
\* senders, and ends.
WatchStop ==
    /\ watchTask = "running"
    /\ ShutdownRecvReady(watchRx)
    /\ watchTask' = "done"
    /\ UNCHANGED <<pc, tls, server, shutdownFut, shSenders, shSent, srvRx, watchRx,
                   graceful>>
    /\ UNCHANGED nonServeVars
    /\ UNCHANGED <<buildRes, srvKind, futAt>>

\* The watch task panics or is cancelled: joining it gives an error.
WatchFail ==
    /\ watchTask = "running"
    /\ watchTask' = "failed"
    /\ UNCHANGED <<pc, tls, server, shutdownFut, shSenders, shSent, srvRx, watchRx,
                   graceful>>
    /\ UNCHANGED nonServeVars
    /\ UNCHANGED <<buildRes, srvKind, futAt>>

\* shutdown_fut: shutdown_rx.recv().await completes, whatever its result;
\* handle_clone.graceful_shutdown(Some(0s)), or the hook of the plaintext
\* server completes. The receiver is dropped with the future.
\* (ShutdownFut_Loops: the future waits for the next signal again.)
ShutdownFut_Loops ==
    /\ shutdownFut = "waiting"
    /\ ShutdownRecvReady(srvRx)
    /\ graceful' = graceful + 1
    /\ srvRx' = IF srvRx < shSent THEN srvRx + 1 ELSE srvRx
    /\ shutdownFut' = IF srvRx < shSent THEN "waiting" ELSE "done"
    /\ UNCHANGED <<pc, tls, watchTask, server, shSenders, shSent, watchRx>>
    /\ UNCHANGED nonServeVars
    /\ UNCHANGED <<buildRes, srvKind, futAt>>

ShutdownFut ==
    /\ shutdownFut = "waiting"
    /\ ShutdownRecvReady(srvRx)
    /\ graceful' = graceful + 1
    /\ shutdownFut' = "done"
    /\ UNCHANGED <<pc, tls, watchTask, server, shSenders, shSent, srvRx, watchRx>>
    /\ UNCHANGED nonServeVars
    /\ UNCHANGED <<buildRes, srvKind, futAt>>

\* The server, told to shut down gracefully, stops accepting, its
\* connections end, and server.await returns.
ServerStop ==
    /\ server = "serving"
    /\ graceful > 0
    /\ server' = "stopped"
    /\ UNCHANGED <<pc, tls, watchTask, shutdownFut, shSenders, shSent, srvRx,
                   watchRx, graceful>>
    /\ UNCHANGED nonServeVars
    /\ UNCHANGED <<buildRes, srvKind, futAt>>

\* The server ends by itself: server.await returns an error, which is
\* logged ("stopped"), or the task panics ("failed"). The hook of the
\* plaintext server goes with it.
ServerFail(how) ==
    /\ server = "serving"
    /\ server' = how
    /\ shutdownFut' = IF ~tls /\ shutdownFut = "waiting" THEN "dropped" ELSE shutdownFut
    /\ UNCHANGED <<pc, tls, watchTask, shSenders, shSent, srvRx, watchRx, graceful>>
    /\ UNCHANGED nonServeVars
    /\ UNCHANGED <<buildRes, srvKind, futAt>>

ServeInit ==
    /\ ReloadIdle
    /\ RouterIdle
    /\ MountIdle
    /\ ListenIdle
    /\ pc = "start"
    /\ tls \in BOOLEAN
    /\ watchTask = "none"
    /\ server = "none"
    /\ shutdownFut = "none"
    /\ shSenders = {"caller", "lifecycle"}
    /\ shSent = 0
    /\ srvRx = 0
    /\ watchRx = 0
    /\ graceful = 0
    /\ buildRes = "none"
    /\ srvKind = {}
    /\ futAt = "none"

\* The steps of the caller's thread of control.
RunStep ==
    \/ New
    \/ NewErr
    \/ RunBuild
    \/ SpawnWatch
    \/ Subscribe
    \/ BuildClient
    \/ BuildClientErr
    \/ BuildServer
    \/ SpawnServerTask
    \/ DropShutdownTx
    \/ AwaitWatch
    \/ AwaitServer

ServeNext ==
    \/ RunStep
    \/ CallerSignal
    \/ CallerDrop
    \/ WatchStop
    \/ WatchFail
    \/ ShutdownFut
    \/ ServerStop
    \/ \E how \in {"stopped", "failed"} : ServerFail(how)

SpecServe == ServeInit /\ [][ServeNext]_vars

\* The runtime keeps polling the caller's future and the spawned tasks.
FairServe ==
    /\ SpecServe
    /\ WF_vars(RunStep)
    /\ WF_vars(WatchStop)
    /\ WF_vars(ShutdownFut)
    /\ WF_vars(ServerStop)

(***************************************************************************)
(* The mount point of the static file service (router, public_route).      *)
(***************************************************************************)
UrlTokens == {SLASH, "app", "x"}

\* The public URLs: the strings of at most MaxUrlLen tokens that begin
\* with a slash.
UrlStrings ==
    {u \in UNION {[1..n -> UrlTokens] : n \in 1..MaxUrlLen} : u[1] = SLASH}

MountInit ==
    /\ ReloadIdle
    /\ RouterIdle
    /\ ServeIdle
    /\ ListenIdle
    /\ purl \in UrlStrings
    /\ public_route = None

\* router: let public_route = ..
ComputePublicRoute ==
    /\ public_route = None
    /\ public_route' = Some(PublicRoute(purl))
    /\ UNCHANGED purl
    /\ UNCHANGED nonMountVars

MountNext == ComputePublicRoute

SpecMount == MountInit /\ [][MountNext]_vars

(***************************************************************************)
(* The listening addresses spawn_server displays.                          *)
(***************************************************************************)
\* An address is a record: v = 4 with four octets, v = 6 with eight
\* segments.
V4(a, b, c, d) == [v |-> 4, o |-> <<a, b, c, d>>]
V6(a, b, c, d, e, f, g, h) == [v |-> 6, o |-> <<a, b, c, d, e, f, g, h>>]

\* Ipv4Addr::LOCALHOST
LOCALHOST == V4(127, 0, 0, 1)

\* IpAddr::is_unspecified: 0.0.0.0 or ::
IsUnspecified(ip) ==
    IF ip.v = 4 THEN ip.o = <<0, 0, 0, 0>> ELSE ip.o = <<0, 0, 0, 0, 0, 0, 0, 0>>

\* Ipv4Addr::is_private: 10.x.x.x, 172.16.x.x to 172.31.x.x, 192.168.x.x
IsPrivate(ip) ==
    \/ ip.o[1] = 10
    \/ ip.o[1] = 172 /\ ip.o[2] >= 16 /\ ip.o[2] <= 31
    \/ ip.o[1] = 192 /\ ip.o[2] = 168

\* Ipv4Addr::is_loopback: 127.x.x.x
IsLoopback(ip) == ip.o[1] = 127

\* The filter_map closure: IpAddr::V4(ip) if ip.is_private() ||
\* ip.is_loopback() => Some(ip), _ => None.
\* (KeepAddr_AnyV4: every IPv4 address is kept.)
KeepAddr_AnyV4(ip) == ip.v = 4

KeepAddr(ip) == ip.v = 4 /\ (IsPrivate(ip) \/ IsLoopback(ip))

\* list_afinet_netifas().map(|addrs| ..filter_map..collect())
\*                      .unwrap_or_else(|_| vec![Ipv4Addr::LOCALHOST])
ListedAddresses(res) ==
    IF res.ok THEN SelectSeq(res.addrs, KeepAddr) ELSE <<LOCALHOST>>

\* The addresses of the "server listening at" message.
DisplayedAddresses(ip, res) ==
    IF IsUnspecified(ip) THEN ListedAddresses(res) ELSE <<ip>>

\* The addresses a bind address is drawn from.
BindAddrs ==
    {V4(0, 0, 0, 0), V6(0, 0, 0, 0, 0, 0, 0, 0), LOCALHOST, V4(8, 8, 8, 8)}

\* The addresses the interfaces of the machine can have.
IfAddrs ==
    {LOCALHOST, V4(127, 1, 2, 3), V4(10, 0, 0, 1), V4(11, 0, 0, 1),
     V4(172, 16, 0, 1), V4(172, 31, 255, 255), V4(172, 32, 0, 1),
     V4(172, 15, 0, 1), V4(192, 168, 1, 1), V4(192, 169, 1, 1),
     V4(8, 8, 8, 8), V4(169, 254, 1, 1), V4(100, 64, 0, 1),
     V6(0, 0, 0, 0, 0, 0, 0, 1), V6(65152, 0, 0, 0, 0, 0, 0, 1),
     V6(64768, 0, 0, 0, 0, 0, 0, 1), V6(8193, 3512, 0, 0, 0, 0, 0, 1)}

\* What the enumeration returns: the addresses, or an error.
NetifasResults ==
    {[ok |-> FALSE, addrs |-> << >>]}
    \cup {[ok |-> TRUE, addrs |-> l] :
            l \in UNION {[1..n -> IfAddrs] : n \in 0..MaxIfs}}

ListenInit ==
    /\ ReloadIdle
    /\ RouterIdle
    /\ ServeIdle
    /\ MountIdle
    /\ addr \in BindAddrs
    /\ netifas \in NetifasResults
    /\ addresses = None

\* spawn_server: the "server listening at" message.
DisplayAddresses ==
    /\ addresses = None
    /\ addresses' = Some(DisplayedAddresses(addr, netifas))
    /\ UNCHANGED <<addr, netifas>>
    /\ UNCHANGED nonListenVars

ListenNext == DisplayAddresses

SpecListen == ListenInit /\ [][ListenNext]_vars

(***************************************************************************)
(* Properties of the live-reload part (SpecReload).                        *)
(***************************************************************************)
\* The events a..b in emission order.
Events(a, b) == [i \in 1..(b - a) |-> a + i]

\* The events connection c has sent, is sending, and has still to receive.
Accounted(c) ==
    sent[c] \o (IF cur[c] # 0 THEN <<cur[c]>> ELSE << >>) \o Events(rxNext[c], tail)

\* C1: a reload connection whose client has sent nothing and whose sends
\* have not failed stays open, and it sends exactly one reload message for
\* every event emitted since it subscribed, in emission order, and none for
\* an earlier event: what it has sent, is sending and has still to receive
\* is the sequence of the events emitted since its subscription.
C1_OneMessagePerEvent ==
    \A c \in Conns :
        (wsState[c] # "none" /\ ~clientInput[c] /\ closeCause[c] # "send")
            => /\ wsState[c] # "closed"
               /\ Accounted(c) = Events(subAt[c], tail)

\* C2 as stated: once the client has sent a message or disconnected, the
\* connection sends no further reload message.
C2_NoMessageAfterClientInput ==
    [][\A c \in Conns : clientInput[c] => sent'[c] = sent[c]]_vars

\* C2 as amended: once the handler has taken the client-input branch of its
\* select, the connection is closed and sends no further reload message,
\* whatever is pending or emitted afterwards.
C2_NoMessageAfterClientSeen ==
    [][\A c \in Conns :
          closeCause'[c] = "client" => wsState'[c] = "closed" /\ sent'[c] = sent[c]]_vars

\* A connection closed on client input while an event it has not received
\* is in the channel.
C2_Witness ==
    \E c \in Conns :
        /\ closeCause[c] = "client"
        /\ wsState[c] = "closed"
        /\ rxNext[c] < tail
        /\ Len(sent[c]) > 0

(***************************************************************************)
(* Properties of the router part (SpecRouter).                             *)
(***************************************************************************)
\* The proxy routes of a router, in registration order.
ProxyRoutes(rt) == SelectSeq(rt.routes, IsProxy)

\* Route r was built from the entry (backend, ws).
FromEntry(r, backend, ws) ==
    /\ r.backend = backend.name
    /\ r.path = backend.path
    /\ r.kind = IF ws THEN "proxy_ws" ELSE "proxy_http"

\* C4: with the single-entry proxy configuration present, exactly one
\* proxy route is registered, the one of that entry, whatever the list-form
\* configuration holds.
C4_SingleEntryOnly ==
    (IsSome(built) /\ IsSome(rcfg.proxy_backend)) =>
        LET pr == ProxyRoutes(Unwrap(built)) IN
        /\ Len(pr) = 1
        /\ FromEntry(pr[1], Unwrap(rcfg.proxy_backend), rcfg.proxy_ws)

\* The router was built from a single entry next to a non-empty list.
C4_Witness ==
    /\ IsSome(built)
    /\ IsSome(rcfg.proxy_backend)
    /\ IsSome(rcfg.proxies)
    /\ Len(Unwrap(rcfg.proxies)) = MaxProxies
    /\ Unwrap(rcfg.proxies)[1].backend # Unwrap(rcfg.proxy_backend)

\* C5: without the single-entry configuration, the proxy routes are those
\* of the list entries, one per entry and in listed order, each the
\* websocket variant iff the entry's ws flag is set.
C5_OneRoutePerListEntry ==
    (IsSome(built) /\ rcfg.proxy_backend = None) =>
        LET pr == ProxyRoutes(Unwrap(built))
            l  == IF IsSome(rcfg.proxies) THEN Unwrap(rcfg.proxies) ELSE << >>
        IN /\ Len(pr) = Len(l)
           /\ \A i \in 1..Len(l) : FromEntry(pr[i], l[i].backend, l[i].ws)

\* The router was built from a list of different entries with both flags.
C5_Witness ==
    /\ IsSome(built)
    /\ rcfg.proxy_backend = None
    /\ IsSome(rcfg.proxies)
    /\ LET l == Unwrap(rcfg.proxies) IN
        /\ Len(l) >= 2
        /\ l[1].backend # l[2].backend
        /\ l[1].ws /\ ~l[2].ws
        /\ Len(ProxyRoutes(Unwrap(built))) = Len(l)

\* C6: in the built router /_trunk/ws goes to the reload handler and every
\* path no proxy route claims goes to the static fallback service; so do the
\* requests answered.
C6_ReloadAndFallbackKept ==
    /\ (IsSome(built) /\ req = None) =>
          /\ Dispatch(Unwrap(built), WS_PATH).kind = "reload"
          /\ \A p \in ReqPaths :
                (p # WS_PATH /\ Claiming(Unwrap(built), p) = {})
                    => Dispatch(Unwrap(built), p).kind = "static"
    /\ IsSome(resp) =>
          /\ Unwrap(req).path = WS_PATH => Unwrap(resp).handler = "reload"
          /\ (Unwrap(req).path # WS_PATH
              /\ Claiming(Unwrap(built), Unwrap(req).path) = {})
                 => Unwrap(resp).handler = "static"

\* A request for /_trunk/ws answered by the reload handler although proxy
\* routes are mounted at "/" and at "/_trunk".
C6_Witness ==
    /\ IsSome(resp)
    /\ Unwrap(req).path = WS_PATH
    /\ Unwrap(resp).handler = "reload"
    /\ \E i, j \in 1..Len(Unwrap(built).routes) :
          /\ IsProxy(Unwrap(built).routes[i])
          /\ Unwrap(built).routes[i].path = ROOT
          /\ IsProxy(Unwrap(built).routes[j])
          /\ Unwrap(built).routes[j].path = <<SLASH, "_trunk">>

\* The answered request is for a path under the public mount that is no
\* file of the dist directory.
MissingUnderMount ==
    /\ IsSome(resp)
    /\ Under(PublicRoute(rcfg.public_url), Unwrap(req).path)
    /\ ~FileExists(dist, Below(PublicRoute(rcfg.public_url), Unwrap(req).path))

ServesIndex ==
    /\ Unwrap(resp).status = 200
    /\ Unwrap(resp).body = <<INDEX_HTML>>

\* C7 as stated: every request for a path under the public mount that is no
\* existing file is answered with index.html and a success status (read for
\* a dist directory that holds the index.html to answer with).
C7_MissingServesIndex == (MissingUnderMount /\ dist.index) => ServesIndex

\* C7 as amended: a GET request for a path under the public mount that
\* exists in the dist directory neither as a file nor as a directory, and
\* that neither the reload route nor a proxy route claims, is answered with
\* index.html and a success status, provided the dist directory holds an
\* index.html.
C7_MissingGetServesIndex ==
    (/\ MissingUnderMount
     /\ Unwrap(req).method = "GET"
     /\ Unwrap(req).path # WS_PATH
     /\ Claiming(Unwrap(built), Unwrap(req).path) = {}
     /\ dist.index)
        => ServesIndex

\* A GET for a missing file below /app, next to a proxy route, answered
\* with index.html.
C7_Witness ==
    /\ MissingUnderMount
    /\ Unwrap(req).method = "GET"
    /\ Unwrap(req).path = <<SLASH, "app", SLASH, "x">>
    /\ Claiming(Unwrap(built), Unwrap(req).path) = {}
    /\ Len(ProxyRoutes(Unwrap(built))) > 0
    /\ ServesIndex

(***************************************************************************)
(* Properties of the lifecycle part (SpecServe, FairServe).                *)
(***************************************************************************)
\* The proxy entries the configuration makes routes of: the single entry,
\* else the list.
EffectiveEntries(cfg) ==
    IF IsSome(cfg.proxy_backend)
    THEN <<[backend |-> Unwrap(cfg.proxy_backend), ws |-> cfg.proxy_ws,
            insecure |-> cfg.proxy_insecure]>>
    ELSE IF IsSome(cfg.proxies) THEN Unwrap(cfg.proxies)
    ELSE << >>

\* C16: the HTTP proxy route of an entry has the client that accepts
\* invalid certificates iff the entry's insecure flag is set, and the
\* validating client otherwise; websocket proxy routes have no client.
C16_InsecureClientIffFlag ==
    IsSome(built) =>
        LET pr == ProxyRoutes(Unwrap(built))
            l  == EffectiveEntries(rcfg)
        IN /\ Len(pr) = Len(l)
           /\ \A i \in 1..Len(l) :
                IF l[i].ws
                THEN pr[i].client = "none"
                ELSE /\ pr[i].client \in {"client", "insecure_client"}
                     /\ AcceptsInvalidCerts(pr[i].client) <=> l[i].insecure

\* The router was built from a list of two HTTP entries, the first insecure
\* and the second not.
C16_Witness ==
    /\ IsSome(built)
    /\ rcfg.proxy_backend = None
    /\ IsSome(rcfg.proxies)
    /\ LET l  == Unwrap(rcfg.proxies)
           pr == ProxyRoutes(Unwrap(built))
       IN /\ Len(l) = 2
          /\ ~l[1].ws /\ ~l[2].ws
          /\ l[1].insecure /\ ~l[2].insecure
          /\ Len(pr) = 2
          /\ pr[1].client = "insecure_client"
          /\ pr[2].client = "client"

ServerTaskRunning == server = "serving"
ServerTaskEnded == server \in {"stopped", "failed"}
WatchTaskEnded == watchTask \in {"done", "failed"}
Returned == pc \in {"new_err", "ret_err", "ret_ok"}

\* C3: once every sender of the shutdown channel is gone, the server task
\* stops and run returns, with and without TLS.
C3_SendersGoneStopsAll ==
    (shSenders = {}) ~> (~ServerTaskRunning /\ server # "created" /\ Returned)

\* run has returned after the server, which no explicit signal reached,
\* was shut down through its TLS handle by the disposal of the senders.
C3_Witness ==
    /\ shSenders = {}
    /\ shSent = 0
    /\ tls
    /\ pc = "ret_ok"
    /\ server = "stopped"
    /\ watchTask = "done"
    /\ graceful = 1

\* C8: when new or run has returned an error, none of the watch task, the
\* server task and the shutdown-forwarding task is running.
C8_NoTaskOnSetupError ==
    pc \in {"new_err", "ret_err"} =>
        /\ watchTask # "running"
        /\ ~ServerTaskRunning
        /\ shutdownFut # "waiting"

\* C9: with both tasks spawned, run returns only when both have ended, and
\* then it returns Ok, also when joining a task gave an error.
C9_RunJoinsBothTasks ==
    (Returned /\ watchTask \notin {"none", "idle"} /\ server \notin {"none", "created"})
        => /\ pc = "ret_ok"
           /\ WatchTaskEnded
           /\ ServerTaskEnded

\* run has returned Ok after the watch task failed and the server stopped
\* on a graceful shutdown.
C9_Witness ==
    /\ pc = "ret_ok"
    /\ watchTask = "failed"
    /\ server = "stopped"
    /\ graceful = 1

\* C10: the server's graceful shutdown is initiated at most once, and once
\* a signal or the disposal of the last sender is there for the server's
\* subscribed receiver, it is initiated (unless the plaintext server ends
\* by itself first and takes the receiver with it), with and without TLS.
C10_ShutdownObservedOnce ==
    /\ [](graceful <= 1)
    /\ (shutdownFut = "waiting" /\ ShutdownRecvReady(srvRx))
          ~> (graceful = 1 \/ shutdownFut = "dropped")

\* The plaintext server was shut down gracefully once although the caller
\* sent every signal it could and then dropped its sender.
C10_Witness ==
    /\ ~tls
    /\ shSent = MaxSignals
    /\ shSenders = {}
    /\ srvRx = 0
    /\ graceful = 1
    /\ server = "stopped"

WatchTaskStarted == watchTask \in {"running", "done", "failed"}

\* C11: the watch loop task is started only when the initial build has
\* ended, well or not; while the build runs the watch loop does not.
C11_BuildBeforeWatchLoop ==
    /\ WatchTaskStarted => buildRes \in {"ok", "err"}
    /\ pc \in {"start", "constructed", "build"} => ~WatchTaskStarted

\* The watch loop runs after an initial build that failed.
C11_Witness ==
    /\ watchTask = "running"
    /\ buildRes = "err"
    /\ pc = "subscribe"

\* C15: spawn_server builds exactly one server, the TLS one iff TLS is
\* configured; shutdown_fut is a task of its own iff TLS is configured, and
\* the graceful-shutdown hook of the plaintext server otherwise.
C15_OneServerPerMode ==
    IF server = "none"
    THEN srvKind = {} /\ futAt = "none"
    ELSE /\ srvKind = {IF tls THEN "https" ELSE "http"}
         /\ futAt = IF tls THEN "task" ELSE "hook"
         /\ (futAt = "hook" /\ server = "created") => shutdownFut = "created"

\* The plaintext server was stopped by its own hook, which waited on the
\* shutdown receiver.
C15_Witness ==
    /\ ~tls
    /\ srvKind = {"http"}
    /\ futAt = "hook"
    /\ shutdownFut = "done"
    /\ graceful = 1
    /\ server = "stopped"

\* Signals sent since new returned: the watch system's receiver, subscribed
\* in new, marks that point of the channel.
SignalsAfterNew == shSent - watchRx

\* C18: a shutdown signal sent after new has returned, be it during the
\* initial build, is there for the server's shutdown wait: while that wait
\* exists and has not completed, such a signal is pending on its receiver.
C18_SignalAfterNewReachesServer ==
    (shutdownFut \in {"created", "waiting"} /\ SignalsAfterNew > 0)
        => srvRx < shSent

IsOpen(c) == wsState[c] \in {"select", "sending"}

\* C13: a connection that is sending a reload message either sends it and
\* waits again, or fails and is closed; a closed connection stays closed
\* and neither receives nor sends again.
C13_SendOutcomesAndClosedTerminal ==
    [][\A c \in Conns :
        /\ (wsState[c] = "sending" /\ wsState'[c] # "sending") =>
              \/ /\ sent'[c] = Append(sent[c], cur[c])
                 /\ wsState'[c] = "select"
              \/ /\ sent'[c] = sent[c]
                 /\ wsState'[c] = "closed"
                 /\ closeCause'[c] = "send"
        /\ wsState[c] = "closed" =>
              /\ wsState'[c] = "closed"
              /\ sent'[c] = sent[c]
              /\ rxNext'[c] = rxNext[c]
              /\ closeCause'[c] = closeCause[c]]_vars

\* A connection sent one message, failed to send the next and is closed
\* while an event it has not received is in the channel.
C13_Witness ==
    \E c \in Conns :
        /\ wsState[c] = "closed"
        /\ closeCause[c] = "send"
        /\ Len(sent[c]) = 1
        /\ rxNext[c] < tail

\* C19: a connection is closed only by client input, by a failed send or
\* by the disposal of the channel; falling more than BUILD_DONE_CAP events
\* behind does not close it.
C19_OnlyThreeCloseCauses ==
    \A c \in Conns :
        /\ wsState[c] = "closed" =>
              closeCause[c] \in {"client", "send", "disposed"}
        /\ IsOpen(c) => closeCause[c] = "none"

\* C20: while a connection is open the channel has a live sender, the
\* receiver of that connection does not see the channel closed, and no
\* connection was ever closed by the disposal of the channel.
C20_OpenConnectionKeepsSender ==
    \A c \in Conns :
        /\ IsOpen(c) =>
              /\ BuildDoneSenders >= 1
              /\ BroadcastRecv(rxNext[c], tail, BuildDoneSenders) # "Closed"
        /\ closeCause[c] # "disposed"

\* A connection is open and has received every event, while the watch
\* system and the router have dropped their senders.
C20_Witness ==
    \E c \in Conns :
        /\ IsOpen(c)
        /\ ~watchTx
        /\ ~routerAlive
        /\ rxNext[c] = tail
        /\ tail > 0

\* Value of the two leading octets of an IPv4 address.
High16(ip) == ip.o[1] * 256 + ip.o[2]

\* ip lies in 127.0.0.0/8, 10.0.0.0/8, 172.16.0.0/12 or 192.168.0.0/16.
InLoopbackOrPrivateRange(ip) ==
    /\ ip.v = 4
    /\ \/ High16(ip) \div 256 = 127
       \/ High16(ip) \div 256 = 10
       \/ High16(ip) \div 16 = 2753
       \/ High16(ip) = 49320

\* C12: with an unspecified bind address, every displayed address is an
\* IPv4 address of the loopback or of a private range, whatever the
\* enumeration of the interfaces returned, an error included.
C12_OnlyLoopbackOrPrivateShown ==
    (IsSome(addresses) /\ IsUnspecified(addr)) =>
        LET shown == Unwrap(addresses) IN
        /\ \A i \in 1..Len(shown) : InLoopbackOrPrivateRange(shown[i])
        /\ ~netifas.ok => shown = <<V4(127, 0, 0, 1)>>

\* The interfaces have a public IPv4 address and a private one, of which
\* only the private one is displayed.
C12_Witness ==
    /\ IsSome(addresses)
    /\ IsUnspecified(addr)
    /\ netifas.ok
    /\ netifas.addrs = <<V4(8, 8, 8, 8), V4(192, 168, 1, 1)>>
    /\ Unwrap(addresses) = <<V4(192, 168, 1, 1)>>

\* s without its last token when that is a slash, else s.
WithoutTrailingSlash(s) ==
    IF s[Len(s)] = SLASH THEN SubSeq(s, 1, Len(s) - 1) ELSE s

\* C17: the mount point is the public URL without its trailing slash, the
\* public URL "/" being kept; for every public URL other than "/" the
\* mount point does not end in a slash.
C17_MountWithoutTrailingSlash ==
    IsSome(public_route) =>
        LET m == Unwrap(public_route) IN
        IF purl = ROOT
        THEN m = ROOT
        ELSE /\ m = WithoutTrailingSlash(purl)
             /\ m[Len(m)] # SLASH

====
